---- MODULE Spec2Model ----
(***************************************************************************)
(* A model of the leveled logger of src/index.js: the level registry, the  *)
(* Logger constructor and its level accessor, log() with its setImmediate  *)
(* deferral, and __write with its fan-out over the routing table.          *)
(***************************************************************************)
EXTENDS Integers, Sequences, FiniteSets, TLC

\* ------------------------------------------------------------------ bounds

\* log() invocations in one behaviour
MaxCalls == 2
\* caller operations on levels and routing tables in one behaviour
MaxOps == 1
\* ticks of the wall clock in one behaviour
MaxClock == 3

\* ------------------------------------------------------- JavaScript values

\* A value is a record [t, n, s]: t its kind, n its integer part, s its text.
Undefined == [t |-> "undefined", n |-> 0, s |-> <<>>]
Null == [t |-> "null", n |-> 0, s |-> <<>>]
NaN == [t |-> "nan", n |-> 0, s |-> <<>>]
Infinity == [t |-> "inf", n |-> 0, s |-> <<>>]
Num(i) == [t |-> "int", n |-> i, s |-> <<>>]
\* a number with a non-zero fractional part, whose floor is i
Frac(i) == [t |-> "frac", n |-> i, s |-> <<>>]
Str(chars) == [t |-> "str", n |-> 0, s |-> chars]

LF == "\n"
CR == "\r"

Digits == <<"0", "1", "2", "3", "4", "5", "6", "7", "8", "9">>

IsDigit(c) == \E i \in 1..10 : Digits[i] = c

DigitVal(c) == (CHOOSE i \in 1..10 : Digits[i] = c) - 1

RECURSIVE DigitsVal(_)
DigitsVal(cs) ==
    IF cs = <<>> THEN 0
    ELSE 10 * DigitsVal(SubSeq(cs, 1, Len(cs) - 1)) + DigitVal(cs[Len(cs)])

AllDigits(cs) == \A i \in 1..Len(cs) : IsDigit(cs[i])

\* Number(<string>): the empty string is 0, a run of digits is that integer,
\* digits "." digits is a number with or without a fractional part, and
\* anything else is NaN.
StringToNumber(cs) ==
    IF cs = <<>> THEN Num(0)
    ELSE IF AllDigits(cs) THEN Num(DigitsVal(cs))
    ELSE IF \E d \in 2..(Len(cs) - 1) :
                /\ cs[d] = "."
                /\ AllDigits(SubSeq(cs, 1, d - 1))
                /\ AllDigits(SubSeq(cs, d + 1, Len(cs)))
         THEN LET d == CHOOSE e \in 2..(Len(cs) - 1) : cs[e] = "."
                  whole == DigitsVal(SubSeq(cs, 1, d - 1))
                  part == DigitsVal(SubSeq(cs, d + 1, Len(cs)))
              IN  IF part = 0 THEN Num(whole) ELSE Frac(whole)
    ELSE NaN

\* Number(v)
ToNumber(v) ==
    CASE v.t = "undefined" -> NaN
      [] v.t = "null" -> Num(0)
      [] v.t = "str" -> StringToNumber(v.s)
      [] OTHER -> v

\* Number.isInteger(x)
IsInteger(x) == x.t = "int"

\* a > b for a any value and b an integer: both operands become numbers, and
\* a comparison with NaN is false.
GreaterThan(a, b) ==
    LET x == ToNumber(a)
    IN  CASE x.t = "int" -> x.n > b
          [] x.t = "frac" -> x.n >= b
          [] x.t = "inf" -> TRUE
          [] OTHER -> FALSE

RECURSIVE NatToString(_)
NatToString(i) ==
    IF i < 10 THEN <<Digits[i + 1]>>
    ELSE NatToString(i \div 10) \o <<Digits[(i % 10) + 1]>>

\* String(v), for the values of the model
JsString(v) ==
    CASE v.t = "str" -> v.s
      [] v.t = "int" -> IF v.n < 0 THEN <<"-">> \o NatToString(-v.n)
                        ELSE NatToString(v.n)
      [] v.t = "undefined" -> <<"u", "n", "d", "e", "f", "i", "n", "e", "d">>
      [] v.t = "null" -> <<"n", "u", "l", "l">>
      [] v.t = "nan" -> <<"N", "a", "N">>
      [] v.t = "inf" -> <<"I", "n", "f", "i", "n", "i", "t", "y">>
      [] OTHER -> NatToString(v.n) \o <<".", "5">>

\* ---------------------------------------------------------- level registry

LevelList ==
    << [value |-> 1, color |-> "red", text |-> "SEVERE"],
       [value |-> 2, color |-> "yellow", text |-> "WARNING"],
       [value |-> 3, color |-> "blue", text |-> "INFO"],
       [value |-> 4, color |-> "cyan", text |-> "FINE"],
       [value |-> 5, color |-> "gray", text |-> "FINER"],
       [value |-> 6, color |-> "gray", text |-> "FINEST"] >>

\* levels: name without its colour -> rank
levels ==
    [k \in {LevelList[i].text : i \in 1..Len(LevelList)} |->
        LevelList[CHOOSE i \in 1..Len(LevelList) : LevelList[i].text = k].value]

\* reverseLevels: rank -> coloured display name
reverseLevels ==
    [v \in {LevelList[i].value : i \in 1..Len(LevelList)} |->
        LET e == LevelList[CHOOSE i \in 1..Len(LevelList) : LevelList[i].value = v]
        IN  [color |-> e.color, text |-> e.text]]

\* Object.keys(levels).map(key => levels[key])
levelsList == {levels[k] : k \in DOMAIN levels}

\* ------------------------------------------------------------------ inputs

Loggers == {"A", "B"}
Stdout == "stdout"
Streams == {Stdout, "s1", "s2"}

\* the name each construction passes: a string, or none
NameOf == [l \in Loggers |-> IF l = "A" THEN Str(<<"s", "v", "c">>) ELSE Undefined]

\* the Map the caller builds and may pass as options.streams
UserTable == "T"
\* the Map each construction builds for itself
\* one Map made when the module loads and given to every instance
DefaultTableShared(l) == "D"

DefaultTable(l) == l
TableIds == {UserTable} \cup {DefaultTable(l) : l \in Loggers}

\* level sets the caller puts in a routing table
LevelSets == {{levels["INFO"]}, levelsList}

\* values the caller assigns to instance.level
LevelValues ==
    { Num(1), Num(4), Num(7), Str(<<"3">>), Str(<<"4", ".", "0">>),
      Str(<<"a", "b", "c">>), Str(<<"2", ".", "5">>), Frac(2), NaN, Infinity,
      Undefined }

\* of these, the ones a behaviour with log() calls assigns
FewLevelValues == {Num(1), Num(6), Str(<<"a", "b", "c">>)}

\* values the caller passes as the level of a construction
ConstructLevels == {Undefined, Null, Num(3), Str(<<"5">>), Str(<<"a", "b", "c">>)}

\* the ranks at or under the thresholds of the two instances
FewLogLevels == {Num(levels["WARNING"]), Num(levels["INFO"])}

\* values the caller passes as the level of log()
LogLevels == {Num(i) : i \in 1..6}

\* message parts the caller passes to log()
Messages ==
    { <<Str(<<"a">>)>>,
      <<Str(<<"a", CR, LF, "b">>)>> }

\* ------------------------------------------------------------------- state

VARIABLES
    level,       \* __level of each constructed instance
    streamsRef,  \* __streams of each constructed instance: a reference to a Map
    tables,      \* the Map objects: each an insertion-ordered list of entries
    queue,       \* the setImmediate queue
    clock,       \* the wall clock
    failing,     \* the streams whose write() throws
    registry,    \* the properties of the levels object, key -> value
    alive,       \* FALSE once an uncaught exception has ended the process
    ops,         \* caller operations so far
    lastOp,      \* the last call of the constructor or the level setter
    calls,       \* history: every log() invocation
    flushes,     \* history: every run of a deferred task
    trace        \* history: every return of log() and every stream.write()

vars ==
    << level, streamsRef, tables, queue, clock, failing, registry, alive, ops,
       lastOp, calls, flushes, trace >>

NoOp == [op |-> "none", inst |-> "", arg |-> Undefined, threw |-> FALSE]

\* the prefix field of an event that is no write
NoPrefix ==
    [ ts |-> [color |-> "", text |-> 0],
      name |-> [color |-> "", text |-> <<>>],
      level |-> [color |-> "", text |-> ""] ]

\* ------------------------------------------------------------ Map and Set

\* Map.prototype.set: an existing key keeps its place, a new key goes last
MapSet(tab, s, set) ==
    IF \E i \in 1..Len(tab) : tab[i].stream = s
    THEN [i \in 1..Len(tab) |->
            IF tab[i].stream = s THEN [stream |-> s, levels |-> set] ELSE tab[i]]
    ELSE Append(tab, [stream |-> s, levels |-> set])

\* Map.prototype.delete
MapDelete(tab, s) == SelectSeq(tab, LAMBDA e : e.stream # s)

\* a set read as a ceiling: any value not above one of its members passes
SetHasUpTo(set, v) == \E x \in set : ~GreaterThan(v, x)

\* Set.prototype.has on a set of integers: no coercion of the key
SetHas(set, v) == v.t = "int" /\ v.n \in set

\* ---------------------------------------------------------------- __write

\* the arguments no directive took, each after a space
RECURSIVE RestArgs(_, _)
RestArgs(rest, a) ==
    IF a > Len(rest) THEN <<>>
    ELSE <<" ">> \o JsString(rest[a]) \o RestArgs(rest, a + 1)

\* util.format(f, ...rest) from character i of f and argument a of rest:
\* directives %s and %d take the next argument, %% is a percent sign, and the
\* arguments left over follow, space-separated.
RECURSIVE FormatFrom(_, _, _, _)
FormatFrom(cs, rest, i, a) ==
    IF i > Len(cs) THEN RestArgs(rest, a)
    ELSE IF cs[i] = "%" /\ i < Len(cs) /\ cs[i + 1] = "%"
    THEN <<"%">> \o FormatFrom(cs, rest, i + 2, a)
    ELSE IF cs[i] = "%" /\ i < Len(cs) /\ cs[i + 1] \in {"s", "d"} /\ a <= Len(rest)
    THEN JsString(rest[a]) \o FormatFrom(cs, rest, i + 2, a + 1)
    ELSE <<cs[i]>> \o FormatFrom(cs, rest, i + 1, a)

\* util.format.apply(util, messages)
Format(messages) ==
    IF messages = <<>> THEN <<>>
    ELSE IF Head(messages).t = "str"
    THEN FormatFrom(Head(messages).s, Tail(messages), 1, 1)
    ELSE JsString(Head(messages)) \o RestArgs(Tail(messages), 1)

\* message.replace(/\r/g, '')
StripCR(cs) == SelectSeq(cs, LAMBDA c : c # CR)

\* the place of the k-th newline: 0 before the first, past the end after the last
NewlineAt(cs, k) ==
    IF k = 0 THEN 0
    ELSE IF k > Cardinality({i \in 1..Len(cs) : cs[i] = LF}) THEN Len(cs) + 1
    ELSE CHOOSE i \in 1..Len(cs) :
            cs[i] = LF /\ Cardinality({j \in 1..i : cs[j] = LF}) = k

\* a split at the first newline only
SplitAtFirst(cs) ==
    IF \A i \in 1..Len(cs) : cs[i] # LF THEN <<cs>>
    ELSE <<SubSeq(cs, 1, NewlineAt(cs, 1) - 1),
           SubSeq(cs, NewlineAt(cs, 1) + 1, Len(cs))>>

\* message.split(/\n/): k newlines give k + 1 lines
Split(cs) ==
    [k \in 1..(Cardinality({i \in 1..Len(cs) : cs[i] = LF}) + 1) |->
        SubSeq(cs, NewlineAt(cs, k - 1) + 1, NewlineAt(cs, k) - 1)]

\* the clock counts half seconds
TicksPerSecond == 2

\* moment(date).format('YYYY-MM-DD HH:mm:ss'): the time of day to the second
FormatTime(t) == t \div TicksPerSecond

\* reverseLevels[messageLevel]: a property lookup by the key's string
LevelDisplay(v) ==
    IF \E r \in DOMAIN reverseLevels : NatToString(r) = JsString(v)
    THEN reverseLevels[CHOOSE r \in DOMAIN reverseLevels : NatToString(r) = JsString(v)]
    ELSE [color |-> "", text |-> "undefined"]

\* util.format('[%s][%s][%s]', timestamp, name, level name)
Prefix(now, name, messageLevel) ==
    [ ts |-> [color |-> "blue", text |-> FormatTime(now)],
      name |-> IF name.t \in {"undefined", "null"}
               THEN [color |-> "", text |-> <<>>]
               ELSE [color |-> "magenta", text |-> JsString(name)],
      level |-> LevelDisplay(messageLevel) ]

\* the entry tested against the instance's level, not the message's
ApplicableInstLevel(entry, task) == task.instLevel \in entry.levels

\* the entry tested against the message's level and the instance's level now
ApplicableNow(entry, task) ==
    /\ SetHas(entry.levels, task.messageLevel)
    /\ ~GreaterThan(task.messageLevel, level[task.self])

\* whether an entry of the routing table takes the message
Applicable(entry, task) == SetHas(entry.levels, task.messageLevel)

\* a write whose timestamp is taken when the task runs
WriteCallAtFlush(task, stream, line, i) ==
    [ type |-> "write",
      call |-> task.call,
      stream |-> stream,
      idx |-> i,
      prefix |-> Prefix(clock, NameOf[task.self], task.messageLevel),
      sep |-> IF i = 1 THEN "***" ELSE "   ",
      line |-> line ]

\* one stream.write(): [prefix, sep, line].join(' ') + '\n'
WriteCall(task, stream, line, i) ==
    [ type |-> "write",
      call |-> task.call,
      stream |-> stream,
      idx |-> i,
      prefix |-> Prefix(task.now, NameOf[task.self], task.messageLevel),
      sep |-> IF i = 1 THEN "***" ELSE "   ",
      line |-> line ]

\* the inner loop of __write, from entry j: the entries in insertion order
RECURSIVE LineWrites(_, _, _, _, _)
LineWrites(task, tab, line, i, j) ==
    IF j > Len(tab) THEN <<>>
    ELSE (IF Applicable(tab[j], task)
          THEN <<WriteCall(task, tab[j].stream, line, i)>>
          ELSE <<>>)
         \o LineWrites(task, tab, line, i, j + 1)

\* every line for the entry at place j, then the same for the later entries
RECURSIVE StreamWrites(_, _, _, _)
StreamWrites(task, tab, lines, j) ==
    IF j > Len(tab) THEN <<>>
    ELSE (IF Applicable(tab[j], task)
          THEN [k \in 1..Len(lines) |-> WriteCall(task, tab[j].stream, lines[k], k)]
          ELSE <<>>)
         \o StreamWrites(task, tab, lines, j + 1)

\* the loops the other way round: the entries outside, the lines inside
MessageWritesByStream(task, tab, lines, i) == StreamWrites(task, tab, lines, 1)

\* the outer loop of __write, from line i: the lines first to last
RECURSIVE MessageWrites(_, _, _, _)
MessageWrites(task, tab, lines, i) ==
    IF i > Len(lines) THEN <<>>
    ELSE LineWrites(task, tab, lines[i], i, 1)
         \o MessageWrites(task, tab, lines, i + 1)

\* the stream.write() calls of one task, in the order __write makes them:
\* line by line, and for each line entry by entry of the table
Attempts(task, tab) ==
    CHOOSE att \in
        { MessageWrites(task, tab, lines, 1) :
            lines \in { Split(message) :
                message \in {StripCR(Format(task.messages))} } } : TRUE

\* the first write that throws, or 0
FirstThrow(att) ==
    IF \E k \in 1..Len(att) : att[k].stream \in failing
    THEN CHOOSE k \in 1..Len(att) :
            /\ att[k].stream \in failing
            /\ \A h \in 1..(k - 1) : att[h].stream \notin failing
    ELSE 0

\* what __write leaves in the trace: its writes up to a write that throws,
\* which ends the task
Emitted(att) ==
    IF FirstThrow(att) = 0 THEN att
    ELSE SubSeq(att, 1, FirstThrow(att) - 1)
            \o <<[att[FirstThrow(att)] EXCEPT !.type = "throw"]>>

\* the table as it was when log() was called
FlushTableAtCall(task) == calls[task.call].table

\* the table __write iterates: the instance's __streams when the task runs
FlushTable(task) == tables[streamsRef[task.self]]

\* ------------------------------------------------------------ the instance

\* Number(level) only kept from being NaN or infinite: a fraction is truncated
setLevelFinite(v) ==
    LET x == ToNumber(v)
    IN  IF x.t \in {"int", "frac"} THEN [threw |-> FALSE, value |-> x.n]
        ELSE [threw |-> TRUE, value |-> 0]

\* setLevel(level): Number(level) must be an integer
setLevel(v) ==
    LET x == ToNumber(v)
    IN  IF IsInteger(x) THEN [threw |-> FALSE, value |-> x.n]
        ELSE [threw |-> TRUE, value |-> 0]

\* a constructor that skips the setter for an absent level only
\* ('level !== undefined'), so that null is assigned
LoggerStrict(l, lv, opt) ==
    LET x == ToNumber(lv)
        set == IF lv.t = "undefined" THEN [threw |-> FALSE, value |-> 2]
               ELSE IF IsInteger(x) THEN [threw |-> FALSE, value |-> x.n]
               ELSE [threw |-> TRUE, value |-> 0]
    IN  [ threw |-> set.threw,
          level |-> set.value,
          streams |-> IF opt = "none" THEN DefaultTable(l) ELSE UserTable ]

\* the Map of a construction without options.streams
DefaultStreams ==
    <<[stream |-> Stdout, levels |-> {registry[k] : k \in DOMAIN registry}]>>

\* new Logger(name, level, options): the fields of the new instance, or threw
Logger(l, lv, opt) ==
    LET set == IF lv.t \in {"undefined", "null"}
               THEN [threw |-> FALSE, value |-> registry["WARNING"]]
               ELSE setLevel(lv)
    IN  [ threw |-> set.threw,
          level |-> set.value,
          streams |-> IF opt = "none" THEN DefaultTable(l) ELSE UserTable ]

\* new Logger(name, level, options) by the caller
Construct(l, lv, opt) ==
    /\ alive
    /\ l \notin DOMAIN level
    /\ LET new == Logger(l, lv, opt)
       IN  /\ lastOp' = [op |-> "construct", inst |-> l, arg |-> lv,
                         threw |-> new.threw]
           /\ IF new.threw
              THEN UNCHANGED <<level, streamsRef, tables>>
              ELSE /\ level' = level @@ (l :> new.level)
                   /\ tables' = tables @@ (DefaultTable(l) :> DefaultStreams)
                   /\ streamsRef' = streamsRef @@ (l :> new.streams)
    /\ UNCHANGED <<queue, clock, failing, registry, alive, ops, calls, flushes, trace>>

\* instance.level = v
SetLevel(l, v) ==
    /\ alive
    /\ l \in DOMAIN level
    /\ ops < MaxOps
    /\ ops' = ops + 1
    /\ LET set == setLevel(v)
       IN  /\ lastOp' = [op |-> "setLevel", inst |-> l, arg |-> v,
                         threw |-> set.threw]
           /\ level' = IF set.threw THEN level
                       ELSE [level EXCEPT ![l] = set.value]
    /\ UNCHANGED <<streamsRef, tables, queue, clock, failing, registry, alive, calls,
                   flushes, trace>>

\* the caller's tables: its own Map and each instance's __streams
Reachable == {UserTable} \cup {streamsRef[l] : l \in DOMAIN streamsRef}

\* table.set(stream, new Set(...)) by the caller
TableSet(t, s, set) ==
    /\ alive
    /\ t \in Reachable
    /\ ops < MaxOps
    /\ ops' = ops + 1
    /\ tables' = [tables EXCEPT ![t] = MapSet(@, s, set)]
    /\ tables' # tables
    /\ lastOp' = NoOp
    /\ UNCHANGED <<level, streamsRef, queue, clock, failing, registry, alive, calls,
                   flushes, trace>>

\* table.delete(stream) by the caller
TableDelete(t, s) ==
    /\ alive
    /\ t \in Reachable
    /\ ops < MaxOps
    /\ ops' = ops + 1
    /\ tables' = [tables EXCEPT ![t] = MapDelete(@, s)]
    /\ tables' # tables
    /\ lastOp' = NoOp
    /\ UNCHANGED <<level, streamsRef, queue, clock, failing, registry, alive, calls,
                   flushes, trace>>

\* 'level >= this.level'
RejectsAtThreshold(lv, threshold) == GreaterThan(lv, threshold - 1)

\* the 'level > this.level' test of log()
Rejects(lv, threshold) == GreaterThan(lv, threshold)

\* the callback run at once, inside log()
DeferSync(q, tr, task) ==
    [queue |-> q, trace |-> tr \o Emitted(Attempts(task, FlushTable(task)))]

\* the callback put ahead of the ones waiting
DeferFront(q, tr, task) == [queue |-> <<task>> \o q, trace |-> tr]

\* the callback replacing the ones waiting
DeferLatest(q, tr, task) == [queue |-> <<task>>, trace |-> tr]

\* setImmediate(callback): the callback joins the queue, nothing runs
Defer(q, tr, task) == [queue |-> Append(q, task), trace |-> tr]

\* instance.log(level, ...messages)
Log(l, lv, msgs) ==
    /\ alive
    /\ l \in DOMAIN level
    /\ Len(calls) < MaxCalls
    /\ LET id == Len(calls) + 1
           task == [ self |-> l, now |-> clock,
                     instLevel |-> level[l], messageLevel |-> lv,
                     messages |-> msgs, call |-> id ]
           after == IF Rejects(lv, level[l])
                    THEN [queue |-> queue, trace |-> trace]
                    ELSE Defer(queue, trace, task)
       IN  /\ queue' = after.queue
           /\ trace' = Append(after.trace,
                  [ type |-> "return", call |-> id, stream |-> "",
                    idx |-> 0, prefix |-> NoPrefix,
                    sep |-> "", line |-> <<>> ])
           /\ calls' = Append(calls,
                  [ inst |-> l, level |-> lv, messages |-> msgs,
                    threshold |-> level[l], now |-> clock,
                    table |-> tables[streamsRef[l]] ])
    /\ lastOp' = NoOp
    /\ UNCHANGED <<level, streamsRef, tables, clock, failing, registry, alive, ops, flushes>>

\* level.toLowerCase() of each key of levels
ToLowerCase ==
    ("SEVERE" :> "severe") @@ ("WARNING" :> "warning") @@ ("INFO" :> "info")
        @@ ("FINE" :> "fine") @@ ("FINER" :> "finer") @@ ("FINEST" :> "finest")

\* the methods Object.keys(levels).forEach puts on Logger.prototype
MethodNames == {ToLowerCase[key] : key \in DOMAIN levels}

\* a method that passes the place of its key in Object.keys(levels), from 0
ConvenienceByIndex(l, m, msgs) ==
    \E key \in DOMAIN levels :
        /\ ToLowerCase[key] = m
        /\ Log(l, Num(registry[key] - 1), msgs)

\* instance.<m>(...messages): the rank of the key goes in front of the
\* arguments and log() is applied to them
Convenience(l, m, msgs) ==
    \E key \in DOMAIN levels :
        /\ ToLowerCase[key] = m
        /\ Log(l, Num(registry[key]), msgs)

\* the text after the first newline
AfterFirstLF(cs) ==
    LET i == CHOOSE j \in 1..Len(cs) : cs[j] = LF /\ \A k \in 1..(j - 1) : cs[k] # LF
    IN  SubSeq(cs, i + 1, Len(cs))

\* a turn that writes one line of the oldest task and defers the other lines
FlushLineByLine ==
    /\ alive
    /\ queue # <<>>
    /\ LET task == Head(queue)
           text == StripCR(Format(task.messages))
           att == SelectSeq(Attempts(task, FlushTable(task)), LAMBDA e : e.idx = 1)
       IN  /\ trace' = trace \o Emitted(att)
           /\ flushes' = Append(flushes,
                  [ call |-> task.call, table |-> tables[streamsRef[task.self]],
                    clock |-> clock,
                    threshold |-> level[task.self] ])
           /\ alive' = TRUE
           /\ queue' = IF \E i \in 1..Len(text) : text[i] = LF
                       THEN Append(Tail(queue),
                                [task EXCEPT !.messages = <<Str(AfterFirstLF(text))>>])
                       ELSE Tail(queue)
    /\ lastOp' = NoOp
    /\ UNCHANGED <<level, streamsRef, tables, clock, failing, registry, ops, calls>>

\* one turn of the event loop: the oldest deferred callback runs __write
Flush ==
    /\ alive
    /\ queue # <<>>
    /\ \E att \in {Attempts(Head(queue), FlushTable(Head(queue)))} :
        /\ trace' = trace \o Emitted(att)
        /\ alive' \in IF FirstThrow(att) = 0 THEN {TRUE} ELSE {TRUE, FALSE}
    /\ flushes' = Append(flushes,
            [ call |-> Head(queue).call,
              table |-> tables[streamsRef[Head(queue).self]],
              clock |-> clock,
              threshold |-> level[Head(queue).self] ])
    /\ queue' = Tail(queue)
    /\ lastOp' = NoOp
    /\ UNCHANGED <<level, streamsRef, tables, clock, failing, registry, ops, calls>>

\* obj[key] = v on an object that takes the assignment
AssignUnfrozen(obj, key, v) ==
    [k \in DOMAIN obj \cup {key} |-> IF k = key THEN v ELSE obj[k]]

\* obj[key] = v after Object.freeze(obj): the object stays as it is
Assign(obj, key, v) == obj

\* delete obj[key] after Object.freeze(obj): the object stays as it is
DeleteProperty(obj, key) == obj

\* Logger.levels[key] = v by the caller: a TypeError in strict code, nothing
\* in sloppy code
AssignLevel(key, v) ==
    /\ alive
    /\ registry' = Assign(registry, key, v)
    /\ \E strict \in BOOLEAN :
        lastOp' = [op |-> "assignLevel", inst |-> key, arg |-> Num(v), threw |-> strict]
    /\ UNCHANGED <<level, streamsRef, tables, queue, clock, failing, alive, ops,
                   calls, flushes, trace>>

\* delete Logger.levels[key] by the caller
DeleteLevel(key) ==
    /\ alive
    /\ registry' = DeleteProperty(registry, key)
    /\ \E strict \in BOOLEAN :
        lastOp' = [op |-> "deleteLevel", inst |-> key, arg |-> Undefined, threw |-> strict]
    /\ UNCHANGED <<level, streamsRef, tables, queue, clock, failing, alive, ops,
                   calls, flushes, trace>>

\* the wall clock advances
Tick ==
    /\ alive
    /\ clock < MaxClock
    /\ clock' = clock + 1
    /\ lastOp' = NoOp
    /\ UNCHANGED <<level, streamsRef, tables, queue, failing, registry, alive, ops, calls,
                   flushes, trace>>

\* ------------------------------------------------------- the specification

\* the caller's own Map, before any instance exists
InitialUserTable ==
    << [stream |-> "s1", levels |-> levelsList],
       [stream |-> "s2", levels |-> {levels["INFO"]}] >>

\* the process after the module has loaded: no instance yet
InitLoaded ==
    /\ registry = levels
    /\ level = <<>>
    /\ streamsRef = <<>>
    /\ tables = (UserTable :> InitialUserTable)
    /\ queue = <<>>
    /\ clock = 0
    /\ alive = TRUE
    /\ ops = 0
    /\ lastOp = NoOp
    /\ calls = <<>>
    /\ flushes = <<>>
    /\ trace = <<>>

\* the process after new Logger("svc", INFO, {streams: T}) and
\* new Logger(), or new Logger(undefined, undefined, {streams: T})
InitConstructed ==
    /\ registry = levels
    /\ \E opt \in {"none", "user"} :
        LET a == Logger("A", Num(levels["INFO"]), "user")
            b == Logger("B", Undefined, opt)
        IN  /\ level = ("A" :> a.level) @@ ("B" :> b.level)
            /\ streamsRef = ("A" :> a.streams) @@ ("B" :> b.streams)
            /\ tables = (UserTable :> InitialUserTable)
                    @@ (DefaultTable("A") :> DefaultStreams)
                    @@ (DefaultTable("B") :> DefaultStreams)
            /\ queue = <<>>
            /\ clock = 0
            /\ alive = TRUE
            /\ ops = 0
            /\ lastOp = NoOp
            /\ calls = <<>>
            /\ flushes = <<>>
            /\ trace = <<>>

\* destinations whose write() returns
Init == InitConstructed /\ failing = {}

Next ==
    \/ \E l \in Loggers, v \in FewLevelValues : SetLevel(l, v)
    \/ \E t \in TableIds, s \in Streams, set \in LevelSets : TableSet(t, s, set)
    \/ \E t \in TableIds, s \in Streams : TableDelete(t, s)
    \/ \E l \in Loggers, lv \in LogLevels, msgs \in Messages : Log(l, lv, msgs)
    \/ Flush

Spec == Init /\ [][Next]_vars

\* the event loop keeps running the callbacks that wait
SpecLive == Spec /\ WF_vars(Flush)

\* calls and the turns that write them while the wall clock advances
NextClock ==
    \/ \E l \in Loggers, lv \in FewLogLevels, msgs \in Messages : Log(l, lv, msgs)
    \/ Flush
    \/ Tick

SpecClock == Init /\ [][NextClock]_vars

\* one short message
OneMessage == {<<Str(<<"a">>)>>}

\* construction and assignment with every kind of level value
NextLevel ==
    \/ \E l \in Loggers, lv \in ConstructLevels, opt \in {"none", "user"} :
            Construct(l, lv, opt)
    \/ \E l \in Loggers, v \in LevelValues : SetLevel(l, v)
    \/ \E l \in Loggers, lv \in LogLevels, msgs \in OneMessage : Log(l, lv, msgs)
    \/ Flush

\* no instance yet, and destinations whose write() returns
InitLevel == InitLoaded /\ failing = {}

SpecLevel == InitLevel /\ [][NextLevel]_vars

\* destinations of which one throws on write()
InitThrow == InitConstructed /\ failing \in {{s} : s \in Streams}

SpecThrow == InitThrow /\ [][Next]_vars

\* log(level) alone, empty and one-line texts, texts of several lines with
\* and without carriage returns, and a newline that comes from an argument
LineMessages ==
    { <<>>,
      <<Str(<<>>)>>,
      <<Str(<<"a">>)>>,
      <<Str(<<CR>>)>>,
      <<Str(<<LF>>)>>,
      <<Str(<<"a", LF>>)>>,
      <<Str(<<"a", LF, "b", LF, "c">>)>>,
      <<Str(<<"a", CR, LF, CR, LF, "b">>)>>,
      <<Str(<<"%", "s", "-", "%", "d">>), Str(<<"x", LF, "y">>), Num(7)>> }

\* calls with every kind of text, and the turns that write them
NextLines ==
    \/ \E l \in Loggers, lv \in FewLogLevels, msgs \in LineMessages : Log(l, lv, msgs)
    \/ \E t \in TableIds, s \in Streams : TableDelete(t, s)
    \/ Flush

SpecLines == Init /\ [][NextLines]_vars

\* calls through the methods named after the levels only
NextMethods ==
    \/ \E l \in Loggers, v \in FewLevelValues : SetLevel(l, v)
    \/ \E l \in Loggers, m \in MethodNames, msgs \in Messages : Convenience(l, m, msgs)
    \/ Flush

SpecMethods == Init /\ [][NextMethods]_vars

\* the keys the caller tries on Logger.levels: one it has, one it has not
RegistryKeys == {"INFO", "TRACE"}

\* the value the caller tries to store
RegistryValue == 9

\* every operation of one instance, and the caller's attempts on Logger.levels
NextRegistry ==
    \/ \E lv \in {Undefined, Num(3)}, opt \in {"none", "user"} :
            Construct("A", lv, opt)
    \/ \E l \in Loggers, v \in FewLevelValues : SetLevel(l, v)
    \/ \E l \in Loggers, lv \in FewLogLevels, msgs \in OneMessage : Log(l, lv, msgs)
    \/ \E l \in Loggers, m \in MethodNames, msgs \in OneMessage : Convenience(l, m, msgs)
    \/ \E key \in RegistryKeys : AssignLevel(key, RegistryValue)
    \/ \E key \in RegistryKeys : DeleteLevel(key)
    \/ Flush

SpecRegistry == InitLevel /\ [][NextRegistry]_vars

\* two instances of which B has its default table, and a caller that mutates
\* the table of A through A.__streams
NextFrame ==
    \/ \E lv \in {Undefined, Num(3)}, opt \in {"none", "user"} : Construct("A", lv, opt)
    \/ \E lv \in {Undefined, Num(3)} : Construct("B", lv, "none")
    \/ \E l \in Loggers, v \in FewLevelValues : SetLevel(l, v)
    \/ \E s \in Streams, set \in LevelSets :
            "A" \in DOMAIN streamsRef /\ TableSet(streamsRef["A"], s, set)
    \/ \E s \in Streams :
            "A" \in DOMAIN streamsRef /\ TableDelete(streamsRef["A"], s)
    \/ \E l \in Loggers, lv \in FewLogLevels, msgs \in OneMessage : Log(l, lv, msgs)
    \/ Flush

SpecFrame == InitLevel /\ [][NextFrame]_vars

\* levels of log() that are no registered rank, and one that is
OddLevels ==
    { Num(0), Num(7), Undefined, Null, NaN, Str(<<"3">>), Str(<<"a", "b", "c">>),
      Num(levels["WARNING"]) }

\* calls at any level, on thresholds that go up to 7
NextOdd ==
    \/ \E l \in Loggers : SetLevel(l, Num(7))
    \/ \E l \in Loggers, lv \in OddLevels, msgs \in OneMessage : Log(l, lv, msgs)
    \/ Flush

SpecOdd == Init /\ [][NextOdd]_vars

\* ----------------------------------------------------------------- history

IsWrite(e) == e.type = "write"
IsAttempt(e) == e.type \in {"write", "throw"}

CallIds == 1..Len(calls)

\* the writes a call has caused so far
WritesOf(c) == SelectSeq(trace, LAMBDA e : IsWrite(e) /\ e.call = c)

\* the writes a stream has received so far
WritesTo(s) == SelectSeq(trace, LAMBDA e : IsWrite(e) /\ e.stream = s)

Queued(c) == \E i \in 1..Len(queue) : queue[i].call = c
Flushed(c) == \E i \in 1..Len(flushes) : flushes[i].call = c
FlushOf(c) == flushes[CHOOSE i \in 1..Len(flushes) : flushes[i].call = c]

\* whether a table has an entry for the stream whose set holds the rank
Routes(tab, s, rank) ==
    \E i \in 1..Len(tab) : tab[i].stream = s /\ rank \in tab[i].levels

Received(c, s) == \E i \in 1..Len(trace) :
    IsWrite(trace[i]) /\ trace[i].call = c /\ trace[i].stream = s

RegisteredRanks == 1..6

\* -------------------------------------------------------------------- C1

\* C1: a log() call at a registered rank L is scheduled (its task is queued
\* or has run) if and only if L <= the threshold of the instance at the
\* instant of the call, and a call with L > threshold never causes a write.
C1_ScheduledIffAccepted ==
    \A c \in CallIds :
        calls[c].level.t = "int" /\ calls[c].level.n \in RegisteredRanks =>
            /\ (Queued(c) \/ Flushed(c)) <=> calls[c].level.n <= calls[c].threshold
            /\ calls[c].level.n > calls[c].threshold => WritesOf(c) = <<>>

\* a rejected call and an accepted one at its threshold, both past: the queue
\* has emptied and the accepted call has been written
C1_Witness ==
    /\ queue = <<>>
    /\ \E c \in CallIds : calls[c].level.n > calls[c].threshold
    /\ \E c \in CallIds :
        /\ calls[c].level.n = calls[c].threshold
        /\ Flushed(c)
        /\ WritesOf(c) # <<>>

\* -------------------------------------------------------------------- C2

\* C2: the decision taken at the call stands whatever the threshold becomes.
\* A call accepted at its call and since flushed has been written to every
\* stream whose set (at the flush) holds its rank, also when the threshold
\* at the flush would have rejected it; a call rejected at its call is
\* neither scheduled nor written, also when the threshold now would accept it.
C2_DecisionAtCallTime ==
    \A c \in CallIds :
        LET rank == calls[c].level.n
        IN  /\ rank <= calls[c].threshold /\ Flushed(c) =>
                \A s \in Streams :
                    Routes(FlushOf(c).table, s, rank) => Received(c, s)
            /\ rank > calls[c].threshold =>
                ~Queued(c) /\ ~Flushed(c) /\ WritesOf(c) = <<>>

\* an accepted call written although the threshold was lowered below its
\* rank between the call and the flush
C2_Witness ==
    \E c \in CallIds :
        /\ calls[c].level.n <= calls[c].threshold
        /\ Flushed(c)
        /\ calls[c].level.n > FlushOf(c).threshold
        /\ WritesOf(c) # <<>>

\* -------------------------------------------------------------------- C3

\* C3: the writes of a flushed call follow the routing table as it is at the
\* flush. A stream that takes the rank at the flush but did not at the call
\* (added, or its set changed) has received the call's lines; a stream that
\* took the rank at the call but does not at the flush (removed, or its set
\* changed) has received none.
C3_TableReadAtFlush ==
    \A c \in CallIds : Flushed(c) =>
        LET rank == calls[c].level.n
            atCall == calls[c].table
            atFlush == FlushOf(c).table
        IN  \A s \in Streams :
                /\ ~Routes(atCall, s, rank) /\ Routes(atFlush, s, rank) =>
                        Received(c, s)
                /\ Routes(atCall, s, rank) /\ ~Routes(atFlush, s, rank) =>
                        ~Received(c, s)

\* a call on the instance holding the caller's Map, flushed after the caller
\* added a stream to that Map: the added stream has the call's lines
C3_Witness ==
    \E c \in CallIds : \E s \in Streams :
        /\ Flushed(c)
        /\ streamsRef[calls[c].inst] = UserTable
        /\ \A i \in 1..Len(calls[c].table) : calls[c].table[i].stream # s
        /\ Routes(FlushOf(c).table, s, calls[c].level.n)
        /\ Received(c, s)

\* -------------------------------------------------------------------- C4

\* C4: every write went to a stream whose set, in the instance's table when
\* the task ran, holds the message's rank, so a stream mapped to {INFO} has
\* no write for a call at another rank; and every stream whose set holds the
\* rank has a write of every flushed call.
C4_RoutedByLevelSet ==
    /\ \A i \in 1..Len(trace) : IsWrite(trace[i]) =>
            /\ Flushed(trace[i].call)
            /\ Routes(FlushOf(trace[i].call).table, trace[i].stream,
                      calls[trace[i].call].level.n)
    /\ \A c \in CallIds : Flushed(c) =>
            \A s \in Streams :
                Routes(FlushOf(c).table, s, calls[c].level.n) => Received(c, s)

\* a call at FINE, accepted under a threshold of FINEST, flushed to a table
\* mapping one stream to {INFO} and another to all levels: only the second
\* has it
C4_Witness ==
    \E c \in CallIds : \E s, t \in Streams :
        /\ Flushed(c)
        /\ calls[c].level.n = levels["FINE"]
        /\ \E i \in 1..Len(FlushOf(c).table) :
                /\ FlushOf(c).table[i].stream = s
                /\ FlushOf(c).table[i].levels = {levels["INFO"]}
        /\ ~Received(c, s)
        /\ Received(c, t)

\* -------------------------------------------------------------------- C5

\* C5: every stream.write() a call causes comes after the return of that
\* log() call.
C5_ReturnBeforeWrite ==
    \A i \in 1..Len(trace) : IsAttempt(trace[i]) =>
        \E j \in 1..(i - 1) :
            trace[j].type = "return" /\ trace[j].call = trace[i].call

\* the second line of a message written
C5_Witness ==
    \E i \in 1..Len(trace) : IsWrite(trace[i]) /\ trace[i].idx = 2

\* -------------------------------------------------------------------- C6

\* C6: on every stream, the writes of two calls made on one instance are in
\* the order of the calls: no write of a later call precedes a write of an
\* earlier call of the same instance.
C6_FifoPerInstance ==
    \A s \in Streams :
        LET w == WritesTo(s)
        IN  \A i, j \in 1..Len(w) :
                i < j /\ calls[w[i].call].inst = calls[w[j].call].inst =>
                    w[i].call <= w[j].call

\* two calls of one instance, both written to one stream
C6_Witness ==
    \E s \in Streams : \E a, b \in CallIds :
        /\ a < b
        /\ calls[a].inst = calls[b].inst
        /\ Received(a, s)
        /\ Received(b, s)

\* -------------------------------------------------------------------- C7

\* C7: on every stream the lines of one call are contiguous: between two
\* writes of a call no write of another call, whichever instance made it.
C7_LinesContiguous ==
    \A s \in Streams :
        LET w == WritesTo(s)
        IN  \A i, j, k \in 1..Len(w) :
                i < j /\ j < k /\ w[i].call = w[k].call => w[j].call = w[i].call

\* two instances sharing one table, a two-line message of each flushed, and
\* one stream holding the four lines
C7_Witness ==
    \E s \in Streams : \E a, b \in CallIds :
        /\ calls[a].inst # calls[b].inst
        /\ streamsRef[calls[a].inst] = streamsRef[calls[b].inst]
        /\ Len(flushes) = 2
        /\ Len(SelectSeq(WritesTo(s), LAMBDA e : e.call = a)) = 2
        /\ Len(SelectSeq(WritesTo(s), LAMBDA e : e.call = b)) = 2

\* -------------------------------------------------------------------- C8

Runs(c) == Cardinality({i \in 1..Len(flushes) : flushes[i].call = c})
Waiting(c) == Cardinality({i \in 1..Len(queue) : queue[i].call = c})

\* a call whose task has run, and has written to every stream whose set held
\* its rank when it ran
FlushedAsRouted(c) ==
    /\ Runs(c) = 1
    /\ Waiting(c) = 0
    /\ \A s \in Streams :
            Routes(FlushOf(c).table, s, calls[c].level.n) => Received(c, s)

\* C8: with the event loop running the callbacks that wait, every call whose
\* task is queued is eventually flushed, its task having run once and written
\* to every stream that took its rank then; and no task ever runs twice.
C8_EventuallyFlushed ==
    /\ \A c \in 1..MaxCalls : Queued(c) ~> FlushedAsRouted(c)
    /\ [](\A c \in CallIds : Runs(c) + Waiting(c) <= 1)

\* two instances sharing one table, a call of each flushed to a shared stream
C8_Witness ==
    \E s \in Streams : \E a, b \in CallIds :
        /\ calls[a].inst # calls[b].inst
        /\ streamsRef[calls[a].inst] = streamsRef[calls[b].inst]
        /\ FlushedAsRouted(a) /\ Received(a, s)
        /\ FlushedAsRouted(b) /\ Received(b, s)

\* -------------------------------------------------------------------- C9

\* the integer each assigned value stands for, for the values that have one
IntegerOf ==
    (Num(1) :> 1) @@ (Num(4) :> 4) @@ (Num(7) :> 7)
        @@ (Str(<<"3">>) :> 3) @@ (Str(<<"4", ".", "0">>) :> 4)

\* C9: an assignment to instance.level of a value that stands for no integer
\* (a non-numeric string, a fraction, NaN, Infinity, undefined) throws and
\* leaves every threshold as it was; an assignment of a value that stands
\* for an integer does not throw and makes that integer the threshold.
C9_SetterChecksInteger ==
    [][ lastOp'.op = "setLevel" /\ ops' = ops + 1 =>
            LET l == lastOp'.inst
                v == lastOp'.arg
            IN  IF v \in DOMAIN IntegerOf
                THEN /\ ~lastOp'.threw
                     /\ level' = [level EXCEPT ![l] = IntegerOf[v]]
                ELSE /\ lastOp'.threw
                     /\ level' = level ]_vars

\* a fraction assigned to an instance constructed at INFO: the assignment
\* threw and the threshold is INFO
C9_Witness ==
    /\ lastOp.op = "setLevel"
    /\ lastOp.arg = Frac(2)
    /\ lastOp.threw
    /\ level[lastOp.inst] = levels["INFO"]

\* ------------------------------------------------------------------- C10

\* C10: a write that throws stops neither the writes to the other streams of
\* the table nor those of the other lines: when a task has run, a write has
\* been attempted for every line on every stream whose set held the rank.
C10_FailureIsolated ==
    \A f \in 1..Len(flushes) :
        LET c == flushes[f].call
            lines == Split(StripCR(Format(calls[c].messages)))
        IN  \A s \in Streams : \A k \in 1..Len(lines) :
                Routes(flushes[f].table, s, calls[c].level.n) =>
                    \E i \in 1..Len(trace) :
                        /\ IsAttempt(trace[i])
                        /\ trace[i].call = c
                        /\ trace[i].stream = s
                        /\ trace[i].idx = k

\* ------------------------------------------------------------------- C11

\* the text of a call: the formatted message without its carriage returns
TextOf(c) == StripCR(Format(calls[c].messages))

\* the writes a call has caused on one stream, oldest first
WritesOfTo(c, s) ==
    SelectSeq(trace, LAMBDA e : IsWrite(e) /\ e.call = c /\ e.stream = s)

\* lines put together again with a newline between them
RECURSIVE JoinLines(_)
JoinLines(ws) ==
    IF Len(ws) = 0 THEN <<>>
    ELSE IF Len(ws) = 1 THEN ws[1].line
    ELSE ws[1].line \o <<LF>> \o JoinLines(Tail(ws))

\* C11: a call that has been flushed and whose text holds k newlines has
\* caused exactly k + 1 writes on every stream whose set held its rank, and
\* none on the others; the lines of those writes, in the order written and
\* joined by newlines, are the text (each line once, top to bottom); the
\* first write carries the marker '***' and every later one three spaces.
C11_OneWritePerLine ==
    \A c \in CallIds : Flushed(c) =>
        LET text == TextOf(c)
            k == Cardinality({i \in 1..Len(text) : text[i] = LF})
        IN  \A s \in Streams :
                LET ws == WritesOfTo(c, s)
                IN  IF Routes(FlushOf(c).table, s, calls[c].level.n)
                    THEN /\ Len(ws) = k + 1
                         /\ JoinLines(ws) = text
                         /\ ws[1].sep = "***"
                         /\ \A i \in 2..Len(ws) : ws[i].sep = "   "
                    ELSE ws = <<>>

\* a text of three lines written to two streams, and a call without any
\* message written as one empty line
C11_Witness ==
    /\ \E c \in CallIds : \E s, t \in Streams :
            /\ s # t
            /\ Len(WritesOfTo(c, s)) = 3
            /\ Len(WritesOfTo(c, t)) = 3
    /\ \E c \in CallIds :
            /\ calls[c].messages = <<>>
            /\ \E s \in Streams :
                    /\ Len(WritesOfTo(c, s)) = 1
                    /\ WritesOfTo(c, s)[1].line = <<>>

\* ------------------------------------------------------------------- C12

\* the integer each constructor level stands for, for the ones that have one
ConstructInteger == (Num(3) :> 3) @@ (Str(<<"5">>) :> 5)

\* C12: new Logger(name, level, options) with level absent or null gives an
\* instance whose threshold is WARNING (2); with a level that stands for an
\* integer, an instance with that threshold; with any other level it throws
\* and gives no instance. Without options.streams the instance's table is a
\* single entry from standard output to the set of the six ranks.
C12_ConstructorDefaults ==
    [][ \A l \in Loggers, lv \in ConstructLevels, opt \in {"none", "user"} :
            Construct(l, lv, opt) =>
                /\ IF lv \in {Undefined, Null}
                   THEN ~lastOp'.threw /\ level'[l] = 2
                   ELSE IF lv \in DOMAIN ConstructInteger
                   THEN ~lastOp'.threw /\ level'[l] = ConstructInteger[lv]
                   ELSE /\ lastOp'.threw
                        /\ l \notin DOMAIN level'
                        /\ l \notin DOMAIN streamsRef'
                /\ ~lastOp'.threw /\ opt = "none" =>
                        /\ Len(tables'[streamsRef'[l]]) = 1
                        /\ tables'[streamsRef'[l]][1].stream = Stdout
                        /\ tables'[streamsRef'[l]][1].levels = 1..6 ]_vars

\* new Logger(name, null) has just returned the only instance, at WARNING
\* and with the default table
C12_Witness ==
    /\ lastOp.op = "construct"
    /\ lastOp.arg = Null
    /\ ~lastOp.threw
    /\ DOMAIN level = {lastOp.inst}
    /\ level[lastOp.inst] = 2
    /\ tables[streamsRef[lastOp.inst]] = <<[stream |-> Stdout, levels |-> 1..6]>>

\* ------------------------------------------------------------------- C13

\* the rank the method of each name stands for
RankOfMethod ==
    ("severe" :> 1) @@ ("warning" :> 2) @@ ("info" :> 3)
        @@ ("fine" :> 4) @@ ("finer" :> 5) @@ ("finest" :> 6)

\* C13: the methods of an instance are exactly severe, warning, info, fine,
\* finer and finest, the keys of Logger.levels in lower case; and a step is
\* a call of one of them with some messages if and only if it is a call of
\* log() with the rank of that level and the same messages: the same
\* decision, the same task queued, and so the same writes at its flush.
C13_MethodIsLogAtRank ==
    [][ /\ MethodNames = DOMAIN RankOfMethod
        /\ \A l \in Loggers, m \in DOMAIN RankOfMethod, msgs \in Messages :
                (m \in MethodNames /\ Convenience(l, m, msgs))
                    <=> Log(l, Num(RankOfMethod[m]), msgs) ]_vars

\* at threshold INFO, info(...) has been written as a call at rank 3 and
\* fine(...) has returned without a task
C13_Witness ==
    \E c, d \in CallIds :
        /\ calls[c].level = Num(3) /\ calls[c].threshold = 3
        /\ Flushed(c) /\ WritesOf(c) # <<>>
        /\ WritesOf(c)[1].prefix.level.text = "INFO"
        /\ calls[d].level = Num(4) /\ calls[d].threshold = 3
        /\ ~Queued(d) /\ ~Flushed(d)

\* ------------------------------------------------------------------- C14

\* the six levels by name
ExpectedLevels ==
    ("SEVERE" :> 1) @@ ("WARNING" :> 2) @@ ("INFO" :> 3)
        @@ ("FINE" :> 4) @@ ("FINER" :> 5) @@ ("FINEST" :> 6)

\* C14: in every reachable state Logger.levels maps exactly SEVERE to 1,
\* WARNING to 2, INFO to 3, FINE to 4, FINER to 5 and FINEST to 6, whatever
\* constructions, level assignments, log() and method calls, flushes and
\* attempts of the caller to assign or delete a property have happened; the
\* reverse lookup has a display name for each rank from 1 to 6, the name of
\* that rank, and every line written carries the name of its call's rank.
C14_RegistryConstant ==
    /\ registry = ExpectedLevels
    /\ DOMAIN reverseLevels = 1..6
    /\ \A k \in DOMAIN ExpectedLevels : reverseLevels[ExpectedLevels[k]].text = k
    /\ \A i \in 1..Len(trace) : IsWrite(trace[i]) =>
            \E k \in DOMAIN ExpectedLevels :
                /\ calls[trace[i].call].level = Num(ExpectedLevels[k])
                /\ trace[i].prefix.level.text = k

\* the caller has just tried to delete Logger.levels.INFO, in strict code,
\* after an instance was constructed and info() was written through it
C14_Witness ==
    /\ lastOp.op = "deleteLevel"
    /\ lastOp.inst = "INFO"
    /\ lastOp.threw
    /\ DOMAIN level # {}
    /\ \E c \in CallIds :
            /\ calls[c].level = Num(3)
            /\ WritesOf(c) # <<>>

\* ------------------------------------------------------------------- C15

\* the streams a call has been written to
ReceiversOf(c) == {s \in Streams : Received(c, s)}

\* C15: an assignment to the level of one instance leaves the threshold of
\* every other instance as it was; and an instance constructed without
\* options.streams keeps writing its calls to standard output and nowhere
\* else whatever another instance's table, default or not, has become.
C15_InstancesSeparate ==
    [][ /\ \A l \in Loggers, v \in FewLevelValues :
                SetLevel(l, v) =>
                    \A m \in DOMAIN level \ {l} : level'[m] = level[m]
        /\ \A i \in 1..Len(flushes') :
                calls'[flushes'[i].call].inst = "B" =>
                    {s \in Streams : \E j \in 1..Len(trace') :
                        /\ trace'[j].type = "write"
                        /\ trace'[j].call = flushes'[i].call
                        /\ trace'[j].stream = s} = {Stdout} ]_vars

\* both instances were constructed without options.streams, standard output
\* has been deleted from the table of A, and then a call on A was written
\* nowhere and a call on B to standard output
C15_Witness ==
    /\ DOMAIN streamsRef = {"A", "B"}
    /\ streamsRef["A"] # UserTable
    /\ tables[streamsRef["A"]] = <<>>
    /\ \E c, d \in CallIds :
            /\ calls[c].inst = "A" /\ calls[c].table = <<>>
            /\ Flushed(c) /\ ReceiversOf(c) = {}
            /\ calls[d].inst = "B"
            /\ Flushed(d) /\ ReceiversOf(d) = {Stdout}

\* ------------------------------------------------------------------- C16

\* C16: every line written for a call carries the time at which log() was
\* called, to the second: all the lines of a call carry the same timestamp,
\* however far the clock has gone on when the task runs.
C16_TimestampOfCall ==
    \A i \in 1..Len(trace) : IsWrite(trace[i]) =>
        trace[i].prefix.ts.text = calls[trace[i].call].now \div TicksPerSecond

\* a call of two lines made in one second and flushed in a later one
C16_Witness ==
    \E c \in CallIds :
        /\ Flushed(c)
        /\ FlushOf(c).clock \div TicksPerSecond > calls[c].now \div TicksPerSecond
        /\ \E i, j \in 1..Len(trace) :
                /\ IsWrite(trace[i]) /\ trace[i].call = c /\ trace[i].idx = 1
                /\ IsWrite(trace[j]) /\ trace[j].call = c /\ trace[j].idx = 2

\* ------------------------------------------------------------------- C17

\* the place of a stream's entry in a table
PlaceOf(tab, s) == CHOOSE i \in 1..Len(tab) : tab[i].stream = s

\* C17: of two writes of one call, the earlier one is of an earlier line, or
\* of the same line on a stream whose entry comes earlier in the table the
\* task read: every stream has line i before any stream has line i + 1, and
\* one line goes to the streams in the table's insertion order.
C17_LineMajorFanOut ==
    \A p, q \in 1..Len(trace) :
        /\ p < q
        /\ IsWrite(trace[p]) /\ IsWrite(trace[q])
        /\ trace[p].call = trace[q].call
        => \/ trace[p].idx < trace[q].idx
           \/ /\ trace[p].idx = trace[q].idx
              /\ PlaceOf(FlushOf(trace[p].call).table, trace[p].stream)
                    < PlaceOf(FlushOf(trace[q].call).table, trace[q].stream)

\* a call of two lines on a default table to which the caller has added s1:
\* the writes are stdout, s1, stdout, s1
C17_Witness ==
    \E c \in CallIds :
        /\ Flushed(c)
        /\ Len(WritesOf(c)) = 4
        /\ WritesOf(c)[1].stream = Stdout /\ WritesOf(c)[1].idx = 1
        /\ WritesOf(c)[2].stream = "s1" /\ WritesOf(c)[2].idx = 1
        /\ WritesOf(c)[3].stream = Stdout /\ WritesOf(c)[3].idx = 2
        /\ WritesOf(c)[4].stream = "s1" /\ WritesOf(c)[4].idx = 2

\* ------------------------------------------------------------------- C18

\* the table of a construction without options.streams, untouched
IsDefaultTable(tab) == tab = <<[stream |-> Stdout, levels |-> 1..6]>>

\* C18: a call whose level is none of the numbers 1 to 6 and whose task has
\* run on a default table has caused no write, whether or not the threshold
\* test let it through; and no line written to standard output carries the
\* level name 'undefined'.
C18_UnregisteredNeverWritten ==
    /\ \A c \in CallIds :
            /\ Flushed(c)
            /\ IsDefaultTable(FlushOf(c).table)
            /\ calls[c].level \notin {Num(r) : r \in 1..6}
            => WritesOf(c) = <<>>
    /\ \A i \in 1..Len(trace) :
            IsWrite(trace[i]) /\ trace[i].stream = Stdout =>
                trace[i].prefix.level.text # "undefined"

\* on a default table, log(undefined, ...) was scheduled and has run without
\* a write, and so has log(7, ...) at threshold 7
C18_Witness ==
    \E c, d \in CallIds :
        /\ calls[c].level = Undefined
        /\ Flushed(c) /\ IsDefaultTable(FlushOf(c).table)
        /\ WritesOf(c) = <<>>
        /\ calls[d].level = Num(7) /\ calls[d].threshold = 7
        /\ Flushed(d) /\ IsDefaultTable(FlushOf(d).table)
        /\ WritesOf(d) = <<>>

====
